---- MODULE Spec2Model ----
(***************************************************************************)
(* NATS auth callout server: the request/response pipeline of              *)
(* authresponse.Handler (decode envelope, authenticate by bearer token or  *)
(* by username/password, mint the user credential, sign, seal, publish).   *)
(*                                                                         *)
(* The handler modelled is the one with the nats_token branch (the Go      *)
(* source at README.markdown:231-486); auth-server/authresponse/handler.go *)
(* is its older variant without that branch and without the check for a    *)
(* missing username or password.                                           *)
(*                                                                         *)
(* Strings that the Go code treats as opaque (keys, subjects, names) are   *)
(* TLA+ strings.  A Go value that may be nil or "" and otherwise carries   *)
(* structure (a pointer, an encoded JWT) is a sequence of length 0 or 1.   *)
(*                                                                         *)
(* Five specifications: Spec is the running handler, one whole invocation  *)
(* per step; SpecEnv adds changes of NATS_TOKEN_SECRET inside the process; *)
(* SpecToken is the token generator (generate_token.go) followed by the    *)
(* handler; SpecStartup is the operations of startup (run, config.Load,    *)
(* authkeys.Parse, Repository.Get), one call at a time; SpecService is the *)
(* service host from registration to exit, with invocations that advance   *)
(* stage by stage and interleave.                                          *)
(***************************************************************************)
EXTENDS Integers, Sequences, FiniteSets, TLC

VARIABLES keyPairs, userRepo, secret, now, running, handled, last, call, inflight, conn

vars == <<keyPairs, userRepo, secret, now, running, handled, last, call, inflight, conn>>

(***************************************************************************)
(* Bounds                                                                  *)
(***************************************************************************)
MaxRequests == 2
MaxTime == 2
MaxInflight == 2

(***************************************************************************)
(* Key material (auth.KeyPairs) and nkeys helpers                          *)
(***************************************************************************)
IssuerPub == "AISSUER"
CurvePub == "XOURS"
PeerXKey == "XPEER"

\* nkeys.IsValidPublicUserKey: a well-formed public key with the user prefix.
IsValidPublicUserKey(k) == k \in {"UUSER"}

\* nkeys: a well-formed public curve key (decoded by Open and Seal).
IsValidPublicCurveKey(k) == k \in {PeerXKey, "XOTHER"}

KeyPairs(curve) == [Issuer |-> IssuerPub, Curve |-> curve, HasXKey |-> curve # <<>>]

(***************************************************************************)
(* jwt.Permissions and auth.User                                           *)
(***************************************************************************)
Permission(allow, deny) == [Allow |-> allow, Deny |-> deny]

NoPermission == Permission(<<>>, <<>>)

Permissions(pub, sub, resp) == [Pub |-> pub, Sub |-> sub, Resp |-> resp]

ResponsePermission(n) == [MaxMsgs |-> n]

NoPermissions == Permissions(NoPermission, NoPermission, <<>>)

User(pass, account, perms) == [Pass |-> pass, Account |-> account, Permissions |-> perms]

\* usersdebug.New: the users of the debug repository.
UsersNew ==
    [u \in {"sys", "alice", "test", "dev"} |->
        CASE u = "sys" -> User("sys", "SYS", NoPermissions)
          [] u = "alice" ->
                User("alice", "DEVELOPMENT",
                     Permissions(Permission(<<"$JS.API.STREAM.LIST">>, <<>>),
                                 Permission(<<"_INBOX.>", "TEST.test">>, <<>>),
                                 <<ResponsePermission(1)>>))
          [] u = "test" -> User("test", "TEST", NoPermissions)
          [] u = "dev" -> User("dev", "DEVELOPMENT", NoPermissions)]

\* usersdebug.FakeRepository: the stub used when the users file cannot be loaded.
FakeRepository == [u \in {"fake"} |-> User("fake", "Fake", NoPermissions)]

\* Names asked of the repository.
Names ==
    {"", "alice", "Alice", "ALICE", "alice ", "al*", "*", ".*", "sys", "fake", "unknown"}

Lower(name) == IF name \in {"Alice", "ALICE"} THEN "alice" ELSE name

Get_IgnoreCase(username) ==
    IF Lower(username) \in DOMAIN userRepo THEN <<userRepo[Lower(username)]>> ELSE <<>>

\* Repository.Get: exact map lookup; <<>> stands for (nil, false).
Get(username) ==
    IF username \in DOMAIN userRepo THEN <<userRepo[username]>> ELSE <<>>

(***************************************************************************)
(* Free-form JSON values (map[string]any) of a bearer token's permissions  *)
(***************************************************************************)
JStr(s) == [t |-> "string", s |-> s]

\* A JSON number, kept in tenths so that non-integers exist (15 is 1.5).
JNum(n10) == [t |-> "number", n10 |-> n10]

JList(l) == [t |-> "list", l |-> l]

JMap(m) == [t |-> "map", m |-> m]

NoDoc == [k \in {} |-> JStr("")]

Field(m, k) == IF k \in DOMAIN m THEN <<m[k]>> ELSE <<>>

\* Go type assertion v.(T) with the ok form, on an optional value.
Is(opt, t) == opt # <<>> /\ opt[1].t = t

AllowOnly(l) == JMap([k \in {"allow"} |-> JList(l)])

DocBob ==
    [k \in {"pub", "sub", "resp"} |->
        CASE k = "pub" -> AllowOnly(<<JStr("$JS.API.>")>>)
          [] k = "sub" -> AllowOnly(<<JStr("_INBOX.>"), JStr("TEST.>")>>)
          [] k = "resp" -> JMap([f \in {"max"} |-> JNum(10)])]

DocNonString == [k \in {"pub"} |-> AllowOnly(<<JStr("a.>"), JNum(50)>>)]

DocBadSubject == [k \in {"sub"} |-> AllowOnly(<<JStr("a b")>>)]

RespMax(v) == [k \in {"resp"} |-> JMap([f \in {"max"} |-> v])]

DocNegMax == RespMax(JNum(-10))

DocFracMax == RespMax(JNum(15))

DocZeroMax == RespMax(JNum(0))

DocStringMax == RespMax(JStr("1"))

DocEmptyLists == [k \in {"pub", "sub"} |-> JMap([f \in {"allow", "deny"} |-> JList(<<>>)])]

DocDenyOnly == [k \in {"pub"} |-> JMap([f \in {"deny"} |-> JList(<<JStr("x.>")>>)])]

DocNonStringDeny == [k \in {"sub"} |-> JMap([f \in {"deny"} |-> JList(<<JNum(10), JStr("b.>")>>)])]

DocPubNotMap == [k \in {"pub"} |-> JStr("all")]

\* Permission documents beyond the ones of the README's examples.
Docs ==
    { DocNegMax, DocFracMax, DocZeroMax, DocStringMax, DocEmptyLists,
      DocDenyOnly, DocNonStringDeny, DocPubNotMap }

(***************************************************************************)
(* Bearer tokens (nats_token): what the string decodes to                  *)
(***************************************************************************)
Token(len, segs, alg, key, exp, uid, account, perms) ==
    [len |-> len, segs |-> segs, alg |-> alg, key |-> key, exp |-> exp,
     user_id |-> uid, account |-> account, permissions |-> perms]

EmptyToken == Token(0, 1, "", "", -1, "", "", NoDoc)

Late == MaxTime + 1

TokBob == Token(40, 3, "HS256", "s3cret", Late, "bob", "TEST", DocBob)

Tokens ==
    { EmptyToken,
      TokBob,
      Token(40, 3, "HS256", "wrong", Late, "bob", "TEST", DocBob),
      Token(40, 3, "HS256", "s3cret", 2, "bob", "TEST", DocBob),
      Token(40, 3, "RS256", "rsa", Late, "bob", "TEST", DocBob),
      Token(40, 3, "none", "", Late, "bob", "TEST", DocBob),
      Token(40, 3, "HS384", "s3cret", Late, "bob", "TEST", DocBob),
      Token(40, 3, "HS256", "s3cret", -1, "bob", "TEST", DocBob),
      Token(40, 3, "HS256", "s3cret", Late, "", "TEST", DocBob),
      Token(40, 2, "", "", -1, "", "", NoDoc),
      Token(3, 2, "", "", -1, "", "", NoDoc),
      Token(40, 3, "HS256", "s3cret", Late, "eve", "TEST", DocNonString),
      Token(40, 3, "HS256", "s3cret", Late, "eve", "TEST", DocBadSubject),
      Token(40, 3, "HS256", "s3cret", Late, "carl", "DEVELOPMENT", NoDoc) }

(***************************************************************************)
(* Requests on $SYS.REQ.USER.AUTH                                          *)
(***************************************************************************)
\* jwt.AuthorizationRequestClaims as far as the handler reads it.
RequestClaims(nkey, server, token, username, password) ==
    [UserNkey |-> nkey, ServerID |-> server,
     Token |-> token, Username |-> username, Password |-> password]

\* Every combination of token, username and password, from a broker-assigned
\* user key.
AuthCases ==
    { RequestClaims("UUSER", "NSERVER", t, u, p) :
        t \in Tokens, u \in {"", "alice", "ghost"}, p \in {"", "alice", "wrong"} }

\* Well-signed tokens over the permission documents, without static
\* credentials.
PermissionCases ==
    { RequestClaims("UUSER", "NSERVER",
                    Token(40, 3, "HS256", "s3cret", Late, "dan", "TEST", d), "", "") :
        d \in Docs }

\* Static logins under the name of the fallback principal.
FallbackCases ==
    { RequestClaims("UUSER", "NSERVER", EmptyToken, "fake", p) : p \in {"fake", "wrong"} }

\* Requests whose user key is empty or no public user key.
KeyCases ==
    { RequestClaims(n, "NSERVER", t, "alice", p) :
        n \in {"", "bogus"}, t \in {EmptyToken, TokBob}, p \in {"", "alice", "wrong"} }

\* The claims sent through every envelope shape.
EnvelopeCases ==
    { RequestClaims("UUSER", "NSERVER", t, "alice", p) :
        t \in {EmptyToken, TokBob}, p \in {"alice", "wrong"} }
    \cup { RequestClaims("bogus", "NSERVER", EmptyToken, "alice", "alice") }

\* A payload: box is <<>> for plaintext or <<sender, recipient>> when sealed;
\* body is <<>> for bytes that are no authorization request JWT.
Data(box, body) == [box |-> box, body |-> body]

\* A request message: the name its server-key header was sent under, the
\* header's value ("" when there is none) and the payload.
RequestWith(header, xkey, data) == [header |-> header, xkey |-> xkey, data |-> data]

XkeyHeader == "Nats-Server-Xkey"

Request(xkey, data) == RequestWith(XkeyHeader, xkey, data)

\* Sealed exchanges whose header name is spelled in another case.
HeaderCases ==
    { RequestWith(h, PeerXKey, Data(<<PeerXKey, CurvePub>>, <<rc>>)) :
        h \in {"nats-server-xkey"},
        rc \in { RequestClaims("UUSER", "NSERVER", EmptyToken, "alice", p) : p \in {"alice", "wrong"} } }

Requests ==
    HeaderCases \cup
    { Request("", Data(<<>>, <<rc>>)) : rc \in AuthCases \cup KeyCases \cup PermissionCases \cup FallbackCases }
    \cup
    { Request(x, Data(b, c)) :
        x \in {"", PeerXKey, "junk"},
        b \in {<<>>, <<PeerXKey, CurvePub>>, <<"XOTHER", CurvePub>>},
        c \in {<<>>} \cup { <<rc>> : rc \in EnvelopeCases } }

(***************************************************************************)
(* Errors: a Go error message is the sequence of the parts that            *)
(* fmt.Errorf / fmt.Sprintf join with ": "; <<>> is the empty string.      *)
(***************************************************************************)
NoError == <<>>

Err(msg) == <<msg>>

Wrap(prefix, e) == <<prefix>> \o e

(***************************************************************************)
(* tokenvalidation.ValidateNatsToken                                       *)
(***************************************************************************)
HMACMethods == {"HS256", "HS384", "HS512"}

KnownMethods == HMACMethods \cup {"RS256", "none"}

\* jwt.ParseWithClaims with the handler's key function: method lookup, key
\* function, claims validation (exp), signature verification.
ParseWithClaims_ExpInclusive(tok) ==
    IF tok.alg \notin KnownMethods THEN Err("signing method (alg) is unavailable.")
    ELSE IF tok.alg \notin HMACMethods THEN Err("unexpected signing method")
    ELSE IF tok.key # secret THEN Err("signature is invalid")
    ELSE IF tok.exp # -1 /\ ~(now <= tok.exp) THEN Err("token is expired")
    ELSE NoError

ParseWithClaims(tok) ==
    IF tok.alg \notin KnownMethods THEN Err("signing method (alg) is unavailable.")
    ELSE IF tok.alg \notin HMACMethods THEN Err("unexpected signing method")
    ELSE IF tok.key # secret THEN Err("signature is invalid")
    ELSE IF tok.exp # -1 /\ ~(now < tok.exp) THEN Err("token is expired")
    ELSE NoError

Verdict(panic, err, tok) ==
    [panic |-> panic, err |-> err,
     UserID |-> IF panic \/ err # NoError THEN "" ELSE tok.user_id,
     Account |-> IF panic \/ err # NoError THEN "" ELSE tok.account,
     Permissions |-> IF panic \/ err # NoError THEN NoDoc ELSE tok.permissions]

ValidateNatsToken_NoUserIDCheck(tok) ==
    IF secret = "" THEN
        Verdict(FALSE, Err("NATS_TOKEN_SECRET environment variable is not set"), tok)
    ELSE IF tok.segs # 3 THEN
        \* tokenString[:10] in the debug log line
        IF tok.len < 10 THEN Verdict(TRUE, NoError, tok)
        ELSE Verdict(FALSE, Err("invalid token format"), tok)
    ELSE IF tok.len < 10 THEN Verdict(TRUE, NoError, tok)
    ELSE IF ParseWithClaims(tok) # NoError THEN Verdict(FALSE, ParseWithClaims(tok), tok)
    ELSE IF tok.exp # -1 /\ tok.exp < now THEN Verdict(FALSE, Err("token expired"), tok)
    ELSE Verdict(FALSE, NoError, tok)

ValidateNatsToken(tok) ==
    IF secret = "" THEN
        Verdict(FALSE, Err("NATS_TOKEN_SECRET environment variable is not set"), tok)
    ELSE IF tok.segs # 3 THEN
        \* tokenString[:10] in the debug log line
        IF tok.len < 10 THEN Verdict(TRUE, NoError, tok)
        ELSE Verdict(FALSE, Err("invalid token format"), tok)
    ELSE IF tok.len < 10 THEN Verdict(TRUE, NoError, tok)
    ELSE IF ParseWithClaims(tok) # NoError THEN Verdict(FALSE, ParseWithClaims(tok), tok)
    ELSE IF tok.exp # -1 /\ tok.exp < now THEN Verdict(FALSE, Err("token expired"), tok)
    ELSE IF tok.user_id = "" THEN Verdict(FALSE, Err("missing user_id in token"), tok)
    ELSE Verdict(FALSE, NoError, tok)

(***************************************************************************)
(* Handler.validateUser: conversion of the token's permissions document    *)
(***************************************************************************)
\* v.(string) without the ok form panics on any other dynamic type.
AllStrings(l) == \A i \in 1..Len(l) : l[i].t = "string"

Strings(l) == [i \in 1..Len(l) |-> l[i].s]

ConvertSlot_SwapAllowDeny(permissions, key) ==
    LET slot == Field(permissions, key) IN
    IF ~Is(slot, "map") THEN [panic |-> FALSE, perm |-> NoPermission]
    ELSE
        LET allow == Field(slot[1].m, "allow")
            deny == Field(slot[1].m, "deny")
            hasAllow == Is(allow, "list")
            hasDeny == Is(deny, "list")
        IN  IF hasAllow /\ ~AllStrings(allow[1].l) THEN [panic |-> TRUE, perm |-> NoPermission]
            ELSE IF hasDeny /\ ~AllStrings(deny[1].l) THEN [panic |-> TRUE, perm |-> NoPermission]
            ELSE [panic |-> FALSE,
                  perm |-> Permission(IF hasDeny THEN Strings(deny[1].l) ELSE <<>>,
                                      IF hasAllow THEN Strings(allow[1].l) ELSE <<>>)]

ConvertSlot_AllowAll(permissions, key) ==
    LET slot == Field(permissions, key) IN
    IF ~Is(slot, "map") THEN [panic |-> FALSE, perm |-> Permission(<<">">>, <<>>)]
    ELSE
        LET allow == Field(slot[1].m, "allow")
            deny == Field(slot[1].m, "deny")
            hasAllow == Is(allow, "list")
            hasDeny == Is(deny, "list")
        IN  IF hasAllow /\ ~AllStrings(allow[1].l) THEN [panic |-> TRUE, perm |-> NoPermission]
            ELSE IF hasDeny /\ ~AllStrings(deny[1].l) THEN [panic |-> TRUE, perm |-> NoPermission]
            ELSE [panic |-> FALSE,
                  perm |-> Permission(IF hasAllow THEN Strings(allow[1].l) ELSE <<>>,
                                      IF hasDeny THEN Strings(deny[1].l) ELSE <<>>)]

\* One of the two identical blocks for "pub" and "sub".
ConvertSlot(permissions, key) ==
    LET slot == Field(permissions, key) IN
    IF ~Is(slot, "map") THEN [panic |-> FALSE, perm |-> NoPermission]
    ELSE
        LET allow == Field(slot[1].m, "allow")
            deny == Field(slot[1].m, "deny")
            hasAllow == Is(allow, "list")
            hasDeny == Is(deny, "list")
        IN  IF hasAllow /\ ~AllStrings(allow[1].l) THEN [panic |-> TRUE, perm |-> NoPermission]
            ELSE IF hasDeny /\ ~AllStrings(deny[1].l) THEN [panic |-> TRUE, perm |-> NoPermission]
            ELSE [panic |-> FALSE,
                  perm |-> Permission(IF hasAllow THEN Strings(allow[1].l) ELSE <<>>,
                                      IF hasDeny THEN Strings(deny[1].l) ELSE <<>>)]

\* int(float64): truncation toward zero.
GoInt(n10) == IF n10 >= 0 THEN n10 \div 10 ELSE -((-n10) \div 10)

ConvertResp(permissions) ==
    LET resp == Field(permissions, "resp") IN
    IF ~Is(resp, "map") THEN <<>>
    ELSE LET max == Field(resp[1].m, "max") IN
         IF Is(max, "number") THEN <<ResponsePermission(GoInt(max[1].n10))>> ELSE <<>>

ConvertPermissions(permissions) ==
    LET pub == ConvertSlot(permissions, "pub")
        sub == ConvertSlot(permissions, "sub")
    IN  [panic |-> pub.panic \/ sub.panic,
         perms |-> Permissions(pub.perm, sub.perm, ConvertResp(permissions))]

(***************************************************************************)
(* Handler.validateUser                                                    *)
(***************************************************************************)
Validated(panic, err, user, userID, via, lookups) ==
    [panic |-> panic, err |-> err, user |-> user, userID |-> userID,
     via |-> via, lookups |-> lookups]

\* The token branch of validateUser.
\* A token branch that takes the account of a stored principal of the same name.
validateToken_ConsultStore(rc) ==
    LET v == ValidateNatsToken(rc.Token) IN
    IF v.panic THEN Validated(TRUE, NoError, <<>>, "", "none", <<>>)
    ELSE IF v.err # NoError THEN
        Validated(FALSE, Wrap("validating nats_token", v.err), <<>>, "", "none", <<>>)
    ELSE
        LET c == ConvertPermissions(v.Permissions)
            found == Get(rc.Username)
        IN  IF c.panic THEN Validated(TRUE, NoError, <<>>, "", "none", <<>>)
            ELSE Validated(FALSE, NoError,
                           <<User("", IF found = <<>> THEN v.Account ELSE found[1].Account,
                                  c.perms)>>,
                           v.UserID, "bearer", <<>>)

validateToken(rc) ==
    LET v == ValidateNatsToken(rc.Token) IN
    IF v.panic THEN Validated(TRUE, NoError, <<>>, "", "none", <<>>)
    ELSE IF v.err # NoError THEN
        Validated(FALSE, Wrap("validating nats_token", v.err), <<>>, "", "none", <<>>)
    ELSE
        LET c == ConvertPermissions(v.Permissions) IN
        IF c.panic THEN Validated(TRUE, NoError, <<>>, "", "none", <<>>)
        ELSE Validated(FALSE, NoError, <<User("", v.Account, c.perms)>>,
                       v.UserID, "bearer", <<>>)

validatePassword_SkipCompare(rc) ==
    IF rc.Username = "" \/ rc.Password = "" THEN
        Validated(FALSE, Err("username or password missing"), <<>>, "", "none", <<>>)
    ELSE
        LET found == Get(rc.Username) IN
        IF found = <<>> THEN
            Validated(FALSE, Err("user not found"), <<>>, "", "none", <<rc.Username>>)
        ELSE Validated(FALSE, NoError, found, "", "static", <<rc.Username>>)

validatePassword_OneError(rc) ==
    IF rc.Username = "" \/ rc.Password = "" THEN
        Validated(FALSE, Err("username or password missing"), <<>>, "", "none", <<>>)
    ELSE
        LET found == Get(rc.Username) IN
        IF found = <<>> \/ found[1].Pass # rc.Password THEN
            Validated(FALSE, Err("invalid credentials"), <<>>, "", "none", <<rc.Username>>)
        ELSE Validated(FALSE, NoError, found, "", "static", <<rc.Username>>)

\* The username/password branch of validateUser.
validatePassword(rc) ==
    IF rc.Username = "" \/ rc.Password = "" THEN
        Validated(FALSE, Err("username or password missing"), <<>>, "", "none", <<>>)
    ELSE
        LET found == Get(rc.Username) IN
        IF found = <<>> THEN
            Validated(FALSE, Err("user not found"), <<>>, "", "none", <<rc.Username>>)
        ELSE IF found[1].Pass # rc.Password THEN
            Validated(FALSE, Err("invalid credentials"), <<>>, "", "none", <<rc.Username>>)
        ELSE Validated(FALSE, NoError, found, "", "static", <<rc.Username>>)

validateUser(rc) ==
    IF rc.Token # EmptyToken THEN validateToken(rc) ELSE validatePassword(rc)

(***************************************************************************)
(* Handler.decodeRequest                                                   *)
(***************************************************************************)
\* req.Headers().Get("Nats-Server-Xkey")
\* nats.Header.Get does not canonicalise the key (unlike http.Header.Get).
HeaderXkey(req) == IF req.header = XkeyHeader THEN req.xkey ELSE ""

\* nkeys Curve.Open: the sender key must decode and the box must have been
\* sealed by that sender for our curve key.
CurveOpen(data, sender) ==
    IF IsValidPublicCurveKey(sender) /\ data.box = <<sender, keyPairs.Curve[1]>>
    THEN [err |-> NoError, data |-> Data(<<>>, data.body)]
    ELSE [err |-> Err("open failed"), data |-> Data(<<>>, <<>>)]

\* nkeys Curve.Seal: the recipient key must decode.
CurveSeal(payload, recipient) ==
    IF IsValidPublicCurveKey(recipient)
    THEN [err |-> NoError, data |-> [payload EXCEPT !.box = <<keyPairs.Curve[1], recipient>>]]
    ELSE [err |-> Err("seal failed"), data |-> payload]

decodeRequest(req) ==
    LET xkey == HeaderXkey(req) IN
    IF xkey = "" THEN [err |-> NoError, token |-> req.data]
    ELSE IF keyPairs.Curve = <<>> THEN
        [err |-> Err("xkey not supported"), token |-> Data(<<>>, <<>>)]
    ELSE
        LET opened == CurveOpen(req.data, xkey) IN
        IF opened.err # NoError
        THEN [err |-> Wrap("decrypting message", opened.err), token |-> Data(<<>>, <<>>)]
        ELSE [err |-> NoError, token |-> opened.data]

\* jwt.DecodeAuthorizationRequestClaims: only a plaintext JWT parses.
DecodeAuthorizationRequestClaims(token) ==
    IF token.box = <<>> /\ token.body # <<>>
    THEN [err |-> NoError, rc |-> token.body]
    ELSE [err |-> Err("invalid jwt"), rc |-> <<>>]

(***************************************************************************)
(* Handler.generateUserJWT                                                 *)
(***************************************************************************)
\* jwt Subject validation: empty subjects and subjects with spaces are errors.
SubjectValid(s) == s \notin {"", "a b"}

ListValid(l) == \A i \in 1..Len(l) : SubjectValid(l[i])

\* UserClaims.Validate: no blocking error.
ClaimsValid(perms) ==
    /\ ListValid(perms.Pub.Allow) /\ ListValid(perms.Pub.Deny)
    /\ ListValid(perms.Sub.Allow) /\ ListValid(perms.Sub.Deny)

UserClaims(subject, name, audience, perms) ==
    [Subject |-> subject, Name |-> name, Audience |-> audience,
     Permissions |-> perms, Issuer |-> keyPairs.Issuer]

generateUserJWT_SwappedFields(userNkey, username, user) ==
    IF userNkey = "" THEN [panic |-> TRUE, err |-> NoError, jwt |-> <<>>]
    ELSE IF ~ClaimsValid(user.Permissions) THEN
        [panic |-> FALSE, err |-> Err("validating claims"), jwt |-> <<>>]
    ELSE IF ~IsValidPublicUserKey(userNkey) THEN
        [panic |-> FALSE, err |-> Err("expected subject to be user public key"), jwt |-> <<>>]
    ELSE [panic |-> FALSE, err |-> NoError,
          jwt |-> <<UserClaims(userNkey, user.Account, username, user.Permissions)>>]

generateUserJWT(userNkey, username, user) ==
    \* jwt.NewUserClaims("") is nil; uc.Name = username dereferences it
    IF userNkey = "" THEN [panic |-> TRUE, err |-> NoError, jwt |-> <<>>]
    ELSE IF ~ClaimsValid(user.Permissions) THEN
        [panic |-> FALSE, err |-> Err("validating claims"), jwt |-> <<>>]
    ELSE IF ~IsValidPublicUserKey(userNkey) THEN
        [panic |-> FALSE, err |-> Err("expected subject to be user public key"), jwt |-> <<>>]
    ELSE [panic |-> FALSE, err |-> NoError,
          jwt |-> <<UserClaims(userNkey, username, user.Account, user.Permissions)>>]

(***************************************************************************)
(* Handler.respond                                                         *)
(***************************************************************************)
AuthorizationResponse(userNkey, audience, jwt, error) ==
    [UserNkey |-> userNkey, Audience |-> audience, Jwt |-> jwt, Error |-> error]

\* Bytes handed to req.Respond: a signed response (resp, signedBy), possibly
\* sealed (box), or a bare text.
Payload(box, signedBy, resp, text) ==
    [box |-> box, signedBy |-> signedBy, resp |-> resp, text |-> text]

Text(msg) == Payload(<<>>, "", <<>>, msg)

Responded(panic, sent) == [panic |-> panic, sent |-> sent]

respond(req, userNkey, serverID, userJwt, errMsg) ==
    \* jwt.NewAuthorizationResponseClaims("") is nil; rc.Audience = serverID
    \* dereferences it
    IF userNkey = "" THEN Responded(TRUE, <<>>)
    \* rc.Encode: the subject must be a public user key
    ELSE IF ~IsValidPublicUserKey(userNkey) THEN
        Responded(FALSE, <<Text("Failed to encoding response JWT")>>)
    ELSE
        LET data == Payload(<<>>, keyPairs.Issuer,
                            <<AuthorizationResponse(userNkey, serverID, userJwt, errMsg)>>, "")
            xkey == HeaderXkey(req)
        IN  IF xkey = "" THEN Responded(FALSE, <<data>>)
            ELSE IF keyPairs.Curve = <<>> THEN
                Responded(FALSE, <<Text("Encryption not supported: missing curve key pair")>>)
            ELSE
                LET encrypted == CurveSeal(data, xkey) IN
                IF encrypted.err # NoError
                THEN Responded(FALSE, <<Text("Failed to encrypt response")>>)
                ELSE Responded(FALSE, <<encrypted.data>>)

(***************************************************************************)
(* Handler.HandleRequest                                                   *)
(***************************************************************************)
\* What one invocation did: the payloads passed to req.Respond, whether it
\* panicked, the last stage it entered, the error that ended it, the flow that
\* authenticated it, the minted credential and the names looked up in the
\* repository.
Exchange(req, r, stage, err, via, minted, lookups) ==
    [req |-> req, replies |-> r.sent, panic |-> r.panic, stage |-> stage,
     err |-> err, via |-> via, minted |-> minted, lookups |-> lookups]

NoExchange ==
    Exchange(Request("", Data(<<>>, <<>>)), Responded(FALSE, <<>>),
             "none", NoError, "none", <<>>, <<>>)

CredentialName_AlwaysUsername(rc, userID) == rc.Username

CredentialName_PreferUsername(rc, userID) ==
    IF rc.Username = "" THEN userID ELSE rc.Username

\* username := userID, or rc.ConnectOptions.Username when userID is empty.
CredentialName(rc, userID) ==
    IF userID = "" THEN rc.Username ELSE userID

Run(req) ==
    LET decoded == decodeRequest(req) IN
    IF decoded.err # NoError THEN
        Exchange(req, respond(req, "", "", <<>>, decoded.err),
                 "Received", decoded.err, "none", <<>>, <<>>)
    ELSE
    LET claims == DecodeAuthorizationRequestClaims(decoded.token)
        claimsErr == Wrap("decoding authorization request", claims.err)
    IN
    IF claims.err # NoError THEN
        Exchange(req, respond(req, "", "", <<>>, claimsErr),
                 "Received", claimsErr, "none", <<>>, <<>>)
    ELSE
    LET rc == claims.rc[1]
        v == validateUser(rc)
    IN
    IF v.panic THEN
        Exchange(req, Responded(TRUE, <<>>), "Decoded", NoError, "none", <<>>, v.lookups)
    ELSE IF v.err # NoError THEN
        Exchange(req, respond(req, rc.UserNkey, rc.ServerID, <<>>, v.err),
                 "Decoded", v.err, "none", <<>>, v.lookups)
    ELSE
    LET username == CredentialName(rc, v.userID)
        g == generateUserJWT(rc.UserNkey, username, v.user[1])
        mintErr == Wrap("generating user JWT", g.err)
    IN
    IF g.panic THEN
        Exchange(req, Responded(TRUE, <<>>), "Authenticated", NoError, v.via, <<>>, v.lookups)
    ELSE IF g.err # NoError THEN
        Exchange(req, respond(req, rc.UserNkey, rc.ServerID, <<>>, mintErr),
                 "Authenticated", mintErr, v.via, <<>>, v.lookups)
    ELSE
        Exchange(req, respond(req, rc.UserNkey, rc.ServerID, g.jwt, NoError),
                 "Minted", NoError, v.via, g.jwt, v.lookups)

(***************************************************************************)
(* The service                                                             *)
(***************************************************************************)
(***************************************************************************)
(* Calls outside the request handler: the last one made and its result     *)
(***************************************************************************)
Call(op, in, out) == [op |-> op, in |-> in, out |-> out]

NoCall == Call("none", <<>>, <<>>)

(***************************************************************************)
(* The companion token generator (generate_token.go)                       *)
(***************************************************************************)
\* The -input JSON: json is FALSE for a string that is no JSON object,
\* permissions is <<>> when the key is absent.
Input(json, uid, permissions, account, ttl) ==
    [json |-> json, user_id |-> uid, permissions |-> permissions,
     account |-> account, ttl |-> ttl]

Inputs ==
    { Input(TRUE, "bob", <<DocBob>>, "TEST", 0),
      Input(TRUE, "bob", <<DocBob>>, "TEST", 1),
      Input(TRUE, "dan", <<DocZeroMax>>, "TEST", 0),
      Input(TRUE, "dan", <<DocDenyOnly>>, "TEST", 0),
      Input(TRUE, "carl", <<>>, "", 0),
      Input(TRUE, "", <<DocBob>>, "TEST", 0),
      Input(FALSE, "", <<>>, "", 0) }

\* NATS_TOKEN_SECRET in the generator's environment.
GenSecrets == {"", "s3cret", "other"}

DefaultTTL == 120

\* "deny all": empty allow and deny lists.
DenyAll == JMap([f \in {"allow", "deny"} |-> JList(<<>>)])

\* resp["maxMsgs"] = maxMsgs; delete(resp, "max")
RenameMax(m) ==
    [f \in (DOMAIN m \ {"max"}) \cup {"maxMsgs"} |->
        IF f = "maxMsgs" THEN m["max"] ELSE m[f]]

\* The permissions the generator signs.
SignedPermissions(permissions) ==
    IF permissions = <<>> THEN [k \in {"pub", "sub"} |-> DenyAll]
    ELSE LET doc == permissions[1] IN
         [k \in DOMAIN doc \cup {"pub", "sub"} |->
            IF k \notin DOMAIN doc THEN DenyAll
            ELSE IF k = "resp" /\ doc[k].t = "map" /\ Is(Field(doc[k].m, "max"), "number")
                 THEN JMap(RenameMax(doc[k].m))
                 ELSE doc[k]]

Generated(err, token) == [err |-> err, token |-> token]

GenerateNatsToken(input, genSecret) ==
    IF ~input.json THEN Generated(Err("failed to parse JSON input"), <<>>)
    ELSE IF input.user_id = "" THEN Generated(Err("user_id is required"), <<>>)
    ELSE IF genSecret = "" THEN
        Generated(Err("NATS_TOKEN_SECRET environment variable is not set"), <<>>)
    ELSE Generated(NoError,
                   <<Token(40, 3, "HS256", genSecret,
                           now + (IF input.ttl <= 0 THEN DefaultTTL ELSE input.ttl),
                           input.user_id, input.account,
                           SignedPermissions(input.permissions))>>)

(***************************************************************************)
(* authkeys.Parse                                                          *)
(***************************************************************************)
\* Seeds are sequences of characters, shortened: a real seed has 58.
SeedAccount == <<"S", "A", "A", "G", "7">>

SeedCurve == <<"S", "X", "A", "K", "3">>

SeedUser == <<"S", "U", "A", "B", "2">>

Seeds ==
    { <<>>, SeedAccount, SeedCurve, SeedUser,
      <<"S", "A", "!", "!">>, <<"I", "N", "V", "A", "L">>,
      <<"S", "A", "A">>, <<"S", "X">> }

\* nkeys.FromSeed: the seed decodes (encoding, checksum, key class).
FromSeed(seed) ==
    IF seed \in {SeedAccount, SeedCurve, SeedUser} THEN NoError
    ELSE Err("nkeys: invalid encoding")

HasPrefix(seed, prefix) ==
    Len(seed) >= Len(prefix) /\ SubSeq(seed, 1, Len(prefix)) = prefix

truncateSeed_Whole(seed) == seed

truncateSeed(seed) ==
    IF Len(seed) > 3 THEN SubSeq(seed, 1, 3) \o <<".", ".", ".">> ELSE seed

\* An error of Parse: its text, the seed as quoted in it, the wrapped cause.
SeedError(msg, quoted, cause) == [msg |-> msg, quoted |-> quoted, cause |-> cause]

Parsed(err, kp) == [err |-> err, kp |-> kp]

Parse_AnyIssuerClass(issuerSeed, xkeySeed) ==
    IF issuerSeed = <<>> THEN
        Parsed(<<SeedError("issuer seed cannot be empty", <<>>, NoError)>>, <<>>)
    ELSE IF FromSeed(issuerSeed) # NoError THEN
        Parsed(<<SeedError("parsing issuer seed", truncateSeed(issuerSeed),
                           FromSeed(issuerSeed))>>, <<>>)
    ELSE IF xkeySeed = <<>> THEN
        Parsed(<<>>, <<[Issuer |-> IssuerPub, Curve |-> <<>>, HasXKey |-> FALSE]>>)
    ELSE IF FromSeed(xkeySeed) # NoError THEN
        Parsed(<<SeedError("parsing xkey seed", truncateSeed(xkeySeed),
                           FromSeed(xkeySeed))>>, <<>>)
    ELSE IF ~HasPrefix(xkeySeed, <<"S", "X">>) THEN
        Parsed(<<SeedError("xkey seed must start with 'SX'", truncateSeed(xkeySeed),
                           NoError)>>, <<>>)
    ELSE Parsed(<<>>, <<[Issuer |-> IssuerPub, Curve |-> <<CurvePub>>, HasXKey |-> TRUE]>>)

Parse(issuerSeed, xkeySeed) ==
    IF issuerSeed = <<>> THEN
        Parsed(<<SeedError("issuer seed cannot be empty", <<>>, NoError)>>, <<>>)
    ELSE IF FromSeed(issuerSeed) # NoError THEN
        Parsed(<<SeedError("parsing issuer seed", truncateSeed(issuerSeed),
                           FromSeed(issuerSeed))>>, <<>>)
    ELSE IF ~HasPrefix(issuerSeed, <<"S", "A">>) THEN
        Parsed(<<SeedError("issuer seed must start with 'SA'", truncateSeed(issuerSeed),
                           NoError)>>, <<>>)
    ELSE IF xkeySeed = <<>> THEN
        Parsed(<<>>, <<[Issuer |-> IssuerPub, Curve |-> <<>>, HasXKey |-> FALSE]>>)
    ELSE IF FromSeed(xkeySeed) # NoError THEN
        Parsed(<<SeedError("parsing xkey seed", truncateSeed(xkeySeed),
                           FromSeed(xkeySeed))>>, <<>>)
    ELSE IF ~HasPrefix(xkeySeed, <<"S", "X">>) THEN
        Parsed(<<SeedError("xkey seed must start with 'SX'", truncateSeed(xkeySeed),
                           NoError)>>, <<>>)
    ELSE Parsed(<<>>, <<[Issuer |-> IssuerPub, Curve |-> <<CurvePub>>, HasXKey |-> TRUE]>>)

(***************************************************************************)
(* config.Load                                                             *)
(***************************************************************************)
Config(url, issuerSeed, xkeySeed, environment) ==
    [URL |-> url, IssuerSeed |-> issuerSeed, XKeySeed |-> xkeySeed,
     Environment |-> environment]

\* The file at configPath: whether it can be read, whether it has bytes,
\* whether they are YAML, and what they unmarshal to.
File(exists, empty, yaml, cfg) == [exists |-> exists, empty |-> empty, yaml |-> yaml, cfg |-> cfg]

NoConfig == Config("", <<>>, <<>>, "")

Files ==
    { File(FALSE, TRUE, FALSE, NoConfig),
      File(TRUE, TRUE, FALSE, NoConfig),
      File(TRUE, FALSE, FALSE, NoConfig) }
    \cup
    { File(TRUE, FALSE, TRUE, Config(url, issuerSeed, xkeySeed, environment)) :
        url \in {"", "nats://localhost:4222"},
        issuerSeed \in {<<>>, SeedAccount, <<"I", "N", "V", "A", "L">>},
        xkeySeed \in {<<>>, SeedCurve},
        environment \in {"", "production"} }

Loaded(err, cfg) == [err |-> err, cfg |-> cfg]

Load_XKeyOptional(file) ==
    IF ~file.exists THEN
        Loaded(Wrap("failed to read config file", Err("no such file or directory")), <<>>)
    ELSE IF file.empty THEN Loaded(Err("config file is empty"), <<>>)
    ELSE IF ~file.yaml THEN
        Loaded(Wrap("failed to parse config file", Err("yaml: did not find expected node")), <<>>)
    ELSE IF file.cfg.IssuerSeed = <<>> THEN Loaded(Err("auth.issuer_seed is required"), <<>>)
    ELSE IF file.cfg.Environment = "" THEN
        Loaded(NoError, <<[file.cfg EXCEPT !.Environment = "development"]>>)
    ELSE Loaded(NoError, <<file.cfg>>)

Load(file) ==
    IF ~file.exists THEN
        Loaded(Wrap("failed to read config file", Err("no such file or directory")), <<>>)
    ELSE IF file.empty THEN Loaded(Err("config file is empty"), <<>>)
    ELSE IF ~file.yaml THEN
        Loaded(Wrap("failed to parse config file", Err("yaml: did not find expected node")), <<>>)
    ELSE IF file.cfg.IssuerSeed = <<>> THEN Loaded(Err("auth.issuer_seed is required"), <<>>)
    ELSE IF file.cfg.XKeySeed = <<>> THEN Loaded(Err("auth.xkey_seed is required"), <<>>)
    ELSE IF file.cfg.Environment = "" THEN
        Loaded(NoError, <<[file.cfg EXCEPT !.Environment = "development"]>>)
    ELSE Loaded(NoError, <<file.cfg>>)

(***************************************************************************)
(* main.run: startup                                                       *)
(***************************************************************************)
\* What startup meets outside the process: whether nats.Connect,
\* micro.AddService, usersdebug.New and AddEndpoint succeed.
World(connect, service, users, endpoint) ==
    [connect |-> connect, service |-> service, users |-> users, endpoint |-> endpoint]

Worlds ==
    { World(c, s, u, e) : c \in BOOLEAN, s \in BOOLEAN, u \in BOOLEAN, e \in BOOLEAN }

\* The outcome of run up to the wait for the signal: the error it returns (the
\* prefix it wraps the cause in), the handler's key pairs and repository once
\* the endpoint is registered, and whether the deferred Drain ran.
Started(err, kp, repo, drained) == [err |-> err, kp |-> kp, repo |-> repo, drained |-> drained]

run(file, world) ==
    LET loaded == Load(file) IN
    IF loaded.err # NoError THEN Started(Err("load config"), <<>>, <<>>, FALSE)
    ELSE
        LET cfg == loaded.cfg[1]
            parsed == Parse(cfg.IssuerSeed, cfg.XKeySeed)
        IN  IF cfg.URL = "" \/ cfg.IssuerSeed = <<>> THEN
                Started(Err("missing required configuration"), <<>>, <<>>, FALSE)
            ELSE IF parsed.err # <<>> THEN Started(Err("parse auth keys"), <<>>, <<>>, FALSE)
            ELSE IF ~world.connect THEN Started(Err("nats connect"), <<>>, <<>>, FALSE)
            ELSE IF ~world.service THEN Started(Err("create service"), <<>>, <<>>, TRUE)
            ELSE IF ~world.endpoint THEN Started(Err("add endpoint"), <<>>, <<>>, TRUE)
            ELSE Started(NoError, parsed.kp,
                         <<IF world.users THEN UsersNew ELSE FakeRepository>>, FALSE)

Secrets == {"", "s3cret"}

Init ==
    /\ keyPairs \in {KeyPairs(<<>>), KeyPairs(<<CurvePub>>)}
    /\ userRepo \in {UsersNew, FakeRepository}
    /\ secret \in Secrets
    /\ now = 1
    /\ running = TRUE
    /\ handled = 0
    /\ last = NoExchange
    /\ call = NoCall
    /\ inflight = <<>>
    /\ conn = "connected"

\* The endpoint delivers one request; an uncaught panic ends the process.
HandleRequest(req) ==
    /\ running
    /\ handled < MaxRequests
    /\ last' = Run(req)
    /\ running' = ~Run(req).panic
    /\ handled' = handled + 1
    /\ UNCHANGED <<keyPairs, userRepo, secret, now, call, inflight, conn>>

\* Wall-clock time passes.
Tick ==
    /\ now < MaxTime
    /\ now' = now + 1
    /\ UNCHANGED <<keyPairs, userRepo, secret, running, handled, last, call, inflight, conn>>

Next ==
    \/ \E req \in Requests : HandleRequest(req)
    \/ Tick

Spec == Init /\ [][Next]_vars

\* os.Setenv / os.Unsetenv of NATS_TOKEN_SECRET inside the running process, as
\* the verifier's tests do between two verifications.
Setenv(value) ==
    /\ value # secret
    /\ secret' = value
    /\ UNCHANGED <<keyPairs, userRepo, now, running, handled, last, call, inflight, conn>>

NextEnv ==
    \/ \E req \in Requests : HandleRequest(req)
    \/ Tick
    \/ \E value \in Secrets : Setenv(value)

SpecEnv == Init /\ [][NextEnv]_vars

\* The generator is run with some input, and its token is presented to the
\* handler by a client.
GenerateToken(input, genSecret) ==
    /\ call' = Call("GenerateNatsToken", input, GenerateNatsToken(input, genSecret))
    /\ UNCHANGED <<keyPairs, userRepo, secret, now, running, handled, last, inflight, conn>>

IssuedRequest ==
    Request("", Data(<<>>, <<RequestClaims("UUSER", "NSERVER", call.out.token[1], "", "")>>))

HandleIssued ==
    /\ call.op = "GenerateNatsToken"
    /\ call.out.token # <<>>
    /\ HandleRequest(IssuedRequest)

NextToken ==
    \/ \E input \in Inputs, genSecret \in GenSecrets : GenerateToken(input, genSecret)
    \/ HandleIssued
    \/ Tick

SpecToken == Init /\ [][NextToken]_vars

\* The operations of startup, called one at a time as main.run and the unit
\* tests call them.
CallParse(issuerSeed, xkeySeed) ==
    /\ call' = Call("Parse", <<issuerSeed, xkeySeed>>, Parse(issuerSeed, xkeySeed))
    /\ UNCHANGED <<keyPairs, userRepo, secret, now, running, handled, last, inflight, conn>>

CallGet(username) ==
    /\ call' = Call("Get", username, Get(username))
    /\ UNCHANGED <<keyPairs, userRepo, secret, now, running, handled, last, inflight, conn>>

CallLoad(file) ==
    /\ call' = Call("Load", file, Load(file))
    /\ UNCHANGED <<keyPairs, userRepo, secret, now, running, handled, last, inflight, conn>>

CallRun(file, world) ==
    /\ call' = Call("run", <<file, world>>, run(file, world))
    /\ UNCHANGED <<keyPairs, userRepo, secret, now, running, handled, last, inflight, conn>>

NextStartup ==
    \/ \E file \in Files, world \in Worlds : CallRun(file, world)
    \/ \E file \in Files : CallLoad(file)
    \/ \E issuerSeed \in Seeds, xkeySeed \in Seeds : CallParse(issuerSeed, xkeySeed)
    \/ \E username \in Names : CallGet(username)

SpecStartup == Init /\ [][NextStartup]_vars

(***************************************************************************)
(* The service host: invocations in flight, shutdown                       *)
(***************************************************************************)
\* req.Respond(payload): one publish attempt per payload handed over; a
\* failure is only logged.
Publish_Retry(sent, ok) ==
    IF ok THEN [i \in 1..Len(sent) |-> [payload |-> sent[i], ok |-> TRUE]]
    ELSE [i \in 1..(2 * Len(sent)) |-> [payload |-> sent[(i + 1) \div 2], ok |-> FALSE]]

Publish(sent, ok) == [i \in 1..Len(sent) |-> [payload |-> sent[i], ok |-> ok]]

\* One invocation of HandleRequest: its position (pc), the locals it holds
\* (rc; user, userID as v; userJWT as minted), the error that ended it and the
\* publish attempts it made.
Invocation(req) ==
    [req |-> req, pc |-> "Received", rc |-> <<>>, v |-> <<>>, minted |-> <<>>,
     err |-> NoError, attempts |-> <<>>]

\* h.respond(...); return
Finish(inv, r, err, ok) ==
    IF r.panic THEN [inv EXCEPT !.pc = "Panicked", !.err = err]
    ELSE [inv EXCEPT !.pc = "Responded", !.err = err, !.attempts = Publish(r.sent, ok)]

Panic(inv) == [inv EXCEPT !.pc = "Panicked"]

\* token, err := h.decodeRequest(req); rc, err := jwt.DecodeAuthorizationRequestClaims(token)
DecodeStep(inv, ok) ==
    LET decoded == decodeRequest(inv.req) IN
    IF decoded.err # NoError
    THEN Finish(inv, respond(inv.req, "", "", <<>>, decoded.err), decoded.err, ok)
    ELSE
        LET claims == DecodeAuthorizationRequestClaims(decoded.token)
            claimsErr == Wrap("decoding authorization request", claims.err)
        IN  IF claims.err # NoError
            THEN Finish(inv, respond(inv.req, "", "", <<>>, claimsErr), claimsErr, ok)
            ELSE [inv EXCEPT !.pc = "Decoded", !.rc = claims.rc]

\* user, userID, err := h.validateUser(rc)
AuthenticateStep(inv, ok) ==
    LET rc == inv.rc[1]
        v == validateUser(rc)
    IN  IF v.panic THEN Panic([inv EXCEPT !.v = <<v>>])
        ELSE IF v.err # NoError
        THEN Finish([inv EXCEPT !.v = <<v>>],
                    respond(inv.req, rc.UserNkey, rc.ServerID, <<>>, v.err), v.err, ok)
        ELSE [inv EXCEPT !.pc = "Authenticated", !.v = <<v>>]

\* userJWT, err := h.generateUserJWT(rc.UserNkey, username, user)
MintStep(inv, ok) ==
    LET rc == inv.rc[1]
        v == inv.v[1]
        g == generateUserJWT(rc.UserNkey, CredentialName(rc, v.userID), v.user[1])
        mintErr == Wrap("generating user JWT", g.err)
    IN  IF g.panic THEN Panic(inv)
        ELSE IF g.err # NoError
        THEN Finish(inv, respond(inv.req, rc.UserNkey, rc.ServerID, <<>>, mintErr), mintErr, ok)
        ELSE [inv EXCEPT !.pc = "Minted", !.minted = g.jwt]

\* h.respond(req, rc.UserNkey, rc.Server.ID, userJWT, "")
RespondStep(inv, ok) ==
    LET rc == inv.rc[1] IN
    Finish(inv, respond(inv.req, rc.UserNkey, rc.ServerID, inv.minted, NoError), NoError, ok)

\* Requests of each kind: a login that mints, one that is refused, a bearer
\* token, bytes that are no request, a sealed login.
ServiceRequests ==
    { Request("", Data(<<>>, <<RequestClaims("UUSER", "NSERVER", EmptyToken, "alice", "alice")>>)),
      Request("", Data(<<>>, <<RequestClaims("UUSER", "NSERVER", EmptyToken, "alice", "wrong")>>)),
      Request("", Data(<<>>, <<RequestClaims("UUSER", "NSERVER", TokBob, "", "")>>)),
      Request("", Data(<<>>, <<>>)),
      Request(PeerXKey, Data(<<PeerXKey, CurvePub>>,
                             <<RequestClaims("UUSER", "NSERVER", EmptyToken, "alice", "alice")>>)) }

InitService ==
    /\ Init
    /\ userRepo = UsersNew
    /\ secret = "s3cret"

\* The endpoint's subscription hands a request to the handler.
Deliver(req) ==
    /\ running
    /\ conn = "connected"
    /\ Len(inflight) < MaxInflight
    /\ inflight' = Append(inflight, Invocation(req))
    /\ UNCHANGED <<keyPairs, userRepo, secret, now, running, handled, last, call, conn>>

\* An invocation takes its next step; an uncaught panic ends the process.
Advance(i, next) ==
    /\ running
    /\ inflight' = [inflight EXCEPT ![i] = next]
    /\ running' = (next.pc # "Panicked")
    /\ UNCHANGED <<keyPairs, userRepo, secret, now, handled, last, call, conn>>

Decode(i, ok) ==
    /\ inflight[i].pc = "Received"
    /\ Advance(i, DecodeStep(inflight[i], ok))

Authenticate(i, ok) ==
    /\ inflight[i].pc = "Decoded"
    /\ Advance(i, AuthenticateStep(inflight[i], ok))

Mint(i, ok) ==
    /\ inflight[i].pc = "Authenticated"
    /\ Advance(i, MintStep(inflight[i], ok))

Reply(i, ok) ==
    /\ inflight[i].pc = "Minted"
    /\ Advance(i, RespondStep(inflight[i], ok))

\* os.Interrupt: run returns and its deferred nc.Drain() starts the drain,
\* which proceeds in a goroutine of the client library.
Signal ==
    /\ running
    /\ conn = "connected"
    /\ conn' = "draining"
    /\ UNCHANGED <<keyPairs, userRepo, secret, now, running, handled, last, call, inflight>>

\* main returns: the process ends, whatever its goroutines were doing.
Exit ==
    /\ running
    /\ conn = "draining"
    /\ running' = FALSE
    /\ conn' = "closed"
    /\ UNCHANGED <<keyPairs, userRepo, secret, now, handled, last, call, inflight>>

NextService ==
    \/ \E req \in ServiceRequests : Deliver(req)
    \/ \E i \in 1..Len(inflight), ok \in BOOLEAN : Decode(i, ok)
    \/ \E i \in 1..Len(inflight), ok \in BOOLEAN : Authenticate(i, ok)
    \/ \E i \in 1..Len(inflight), ok \in BOOLEAN : Mint(i, ok)
    \/ \E i \in 1..Len(inflight), ok \in BOOLEAN : Reply(i, ok)
    \/ Signal
    \/ Exit

SpecService == InitService /\ [][NextService]_vars

(***************************************************************************)
(* Properties                                                              *)
(***************************************************************************)
\* The request claims inside a request's envelope, <<>> when there are none.
ClaimsOf(req) == req.data.body

Delivered == handled > 0

IsResponse(p) == p.resp # <<>>

\* C1: every request delivered to HandleRequest gets exactly one reply
\* (req.Respond is invoked exactly once) before the invocation ends.
C1_ExactlyOneReply == Delivered => Len(last.replies) = 1

\* C2: in every published reply exactly one of the response fields jwt and
\* error is non-empty.
C2_JwtXorError ==
    \A i \in 1..Len(last.replies) :
        LET p == last.replies[i] IN
        /\ IsResponse(p)
        /\ (p.resp[1].Jwt # <<>>) # (p.resp[1].Error # NoError)

\* C3: every published reply is an authorization response signed with the
\* issuer key; no unsigned payload is ever published.
C3_AlwaysSigned ==
    \A i \in 1..Len(last.replies) :
        IsResponse(last.replies[i]) /\ last.replies[i].signedBy = keyPairs.Issuer

\* C4: for a request with the curve-key header the published bytes are the
\* signed response sealed with (our curve key, peer key), never plaintext;
\* without the header the signed response is published as it is.
C4_SealedIffHeader ==
    \A i \in 1..Len(last.replies) :
        LET p == last.replies[i] IN
        IF HeaderXkey(last.req) # ""
        THEN IsResponse(p) /\ p.signedBy = keyPairs.Issuer
             /\ p.box = <<CurvePub, HeaderXkey(last.req)>>
        ELSE p.box = <<>>

\* C5: a request that advertises a peer curve key while the service has no
\* curve key is answered with an error response carrying the
\* encryption-unsupported error ("xkey not supported"), and nothing is minted.
C5_EncryptionUnsupported ==
    (Delivered /\ HeaderXkey(last.req) # "" /\ keyPairs.Curve = <<>>) =>
        /\ last.minted = <<>>
        /\ Len(last.replies) = 1
        /\ IsResponse(last.replies[1])
        /\ last.replies[1].resp[1].Error = Err("xkey not supported")
        /\ last.replies[1].resp[1].Jwt = <<>>

HasJwt(x) ==
    \E i \in 1..Len(x.replies) :
        IsResponse(x.replies[i]) /\ x.replies[i].resp[1].Jwt # <<>>

\* The outcome of an invocation apart from the request itself.
Outcome(x) == [x EXCEPT !.req = NoExchange.req]

TokenAccepted(rc) ==
    /\ rc.Token # EmptyToken
    /\ ~ValidateNatsToken(rc.Token).panic
    /\ ValidateNatsToken(rc.Token).err = NoError

PasswordMatches(rc) ==
    /\ rc.Username \in DOMAIN userRepo
    /\ userRepo[rc.Username].Pass = rc.Password

\* C6: a reply carries a minted credential only if the request was
\* authenticated in this invocation: its bearer token passed verification, or
\* its username is in the store and its password equals the stored one.
C6_JwtOnlyIfAuthenticated ==
    [][(handled' = handled + 1 /\ HasJwt(last')) =>
          /\ ClaimsOf(last'.req) # <<>>
          /\ \/ TokenAccepted(ClaimsOf(last'.req)[1])
             \/ PasswordMatches(ClaimsOf(last'.req)[1])]_vars

C6_Witness ==
    /\ HasJwt(last)
    /\ last.via = "static"
    /\ ClaimsOf(last.req)[1].Password = "alice"

\* The same request with username and password removed.
WithoutStatic(req) ==
    [req EXCEPT !.data.body[1].Username = "", !.data.body[1].Password = ""]

HasBoth(req) ==
    /\ ClaimsOf(req) # <<>>
    /\ ClaimsOf(req)[1].Token # EmptyToken
    /\ ClaimsOf(req)[1].Username # ""
    /\ ClaimsOf(req)[1].Password # ""

\* C7: with both a bearer token and a username/password pair the bearer flow
\* is used and the static fields are ignored: the outcome is that of the same
\* request without username and password, also when the token is rejected.
C7_BearerWins ==
    [][(handled' = handled + 1 /\ HasBoth(last'.req)) =>
          Outcome(last') = Outcome(Run(WithoutStatic(last'.req)))]_vars

C7_Witness ==
    /\ Delivered
    /\ HasBoth(last.req)
    /\ PasswordMatches(ClaimsOf(last.req)[1])
    /\ last.via = "bearer"
    /\ HasJwt(last)
    /\ last.minted[1].Name = "bob"

\* The invocation got as far as the decoded request claims.
Decoded == Delivered /\ last.stage # "Received"

\* C8: a request with an empty token that lacks a username or a password
\* fails with missing-credentials: the store is not consulted, nothing is
\* minted, and the reply carries that error.
C8_MissingCredentials ==
    (/\ Decoded
     /\ ClaimsOf(last.req)[1].Token = EmptyToken
     /\ ClaimsOf(last.req)[1].Username = "" \/ ClaimsOf(last.req)[1].Password = "") =>
        /\ last.lookups = <<>>
        /\ last.minted = <<>>
        /\ Len(last.replies) = 1
        /\ IsResponse(last.replies[1])
        /\ last.replies[1].resp[1].Error = Err("username or password missing")
        /\ last.replies[1].resp[1].Jwt = <<>>

\* C9 as stated: in the static flow a username absent from the store yields
\* unknown-user ("user not found") whatever the password, and nothing is
\* minted.
C9_UnknownUserAnyPassword ==
    (/\ Decoded
     /\ ClaimsOf(last.req)[1].Token = EmptyToken
     /\ ClaimsOf(last.req)[1].Username \notin DOMAIN userRepo) =>
        /\ last.err = Err("user not found")
        /\ last.minted = <<>>

\* C9 amended: in the static flow a non-empty username absent from the store,
\* sent with a non-empty password, yields unknown-user ("user not found")
\* whatever that password; the store is consulted once, nothing is minted and
\* no reply carries a jwt.
C9_UnknownUser ==
    (/\ Decoded
     /\ ClaimsOf(last.req)[1].Token = EmptyToken
     /\ ClaimsOf(last.req)[1].Username # ""
     /\ ClaimsOf(last.req)[1].Password # ""
     /\ ClaimsOf(last.req)[1].Username \notin DOMAIN userRepo) =>
        /\ last.err = Err("user not found")
        /\ last.lookups = <<ClaimsOf(last.req)[1].Username>>
        /\ last.minted = <<>>
        /\ ~HasJwt(last)

C9_Witness ==
    /\ Decoded
    /\ ClaimsOf(last.req)[1].Token = EmptyToken
    /\ ClaimsOf(last.req)[1].Username = "ghost"
    /\ ClaimsOf(last.req)[1].Password = "wrong"
    /\ last.err = Err("user not found")
    /\ Len(last.replies) = 1

\* C10: in the static flow, for a username in the store, a supplied password
\* that differs from the stored one yields a reply with the bad-password error
\* ("invalid credentials") and no jwt.
C10_BadPassword ==
    (/\ Decoded
     /\ ClaimsOf(last.req)[1].Token = EmptyToken
     /\ ClaimsOf(last.req)[1].Username \in DOMAIN userRepo
     /\ ClaimsOf(last.req)[1].Password # ""
     /\ ClaimsOf(last.req)[1].Password # userRepo[ClaimsOf(last.req)[1].Username].Pass) =>
        /\ last.minted = <<>>
        /\ Len(last.replies) = 1
        /\ IsResponse(last.replies[1])
        /\ last.replies[1].resp[1].Error = Err("invalid credentials")
        /\ last.replies[1].resp[1].Jwt = <<>>

\* C11: every minted credential has the request's userNkey as subject, the
\* authenticated principal's account as audience and the principal's
\* permissions (the stored ones in the static flow, the translated ones in the
\* bearer flow), and is signed with the issuer key.
C11_MintedFields ==
    (Delivered /\ last.minted # <<>>) =>
        LET rc == ClaimsOf(last.req)[1]
            uc == last.minted[1]
        IN  /\ uc.Subject = rc.UserNkey
            /\ uc.Issuer = keyPairs.Issuer
            /\ last.via \in {"static", "bearer"}
            /\ last.via = "static" =>
                  /\ uc.Audience = userRepo[rc.Username].Account
                  /\ uc.Permissions = userRepo[rc.Username].Permissions
            /\ last.via = "bearer" =>
                  /\ uc.Audience = rc.Token.account
                  /\ uc.Permissions = ConvertPermissions(rc.Token.permissions).perms
            /\ HasJwt(last) => last.replies[1].resp[1].Jwt = last.minted

C11_Witness ==
    /\ HasJwt(last)
    /\ last.via = "bearer"
    /\ last.minted[1].Subject = "UUSER"
    /\ last.minted[1].Audience = "TEST"
    /\ last.minted[1].Permissions.Resp = <<ResponsePermission(1)>>
    /\ last.minted[1].Permissions.Sub.Allow = <<"_INBOX.>", "TEST.>">>

\* C12: the name of a minted credential is the token's user_id when the
\* request was authenticated by its bearer token (whatever username the request
\* also carries), and the request's username when it was authenticated by
\* username and password.
C12_MintedName ==
    (Delivered /\ last.minted # <<>>) =>
        LET rc == ClaimsOf(last.req)[1]
        IN  /\ last.via = "bearer" => last.minted[1].Name = rc.Token.user_id
            /\ last.via = "static" => last.minted[1].Name = rc.Username

C12_Witness ==
    /\ HasJwt(last)
    /\ last.via = "bearer"
    /\ ClaimsOf(last.req)[1].Username = "ghost"
    /\ last.minted[1].Name = "bob"

\* C13: the identity fields of every reply follow the decoding: a reply to a
\* request that could not be decrypted or decoded has empty userNkey and empty
\* audience; every other reply, success or error, has the request's userNkey
\* and the request's serverId as audience.
C13_IdentityFields ==
    Delivered =>
        \A i \in 1..Len(last.replies) :
            LET p == last.replies[i] IN
            /\ IsResponse(p)
            /\ IF last.stage = "Received"
               THEN p.resp[1].UserNkey = "" /\ p.resp[1].Audience = ""
               ELSE /\ p.resp[1].UserNkey = ClaimsOf(last.req)[1].UserNkey
                    /\ p.resp[1].Audience = ClaimsOf(last.req)[1].ServerID

\* C14: the verifier accepts a token only if its header algorithm is exactly
\* HS256: no request is authenticated by a bearer token whose header names
\* another algorithm, even one signed with the process secret.
C14_OnlyHS256 ==
    (Decoded /\ last.via = "bearer") =>
        ClaimsOf(last.req)[1].Token.alg = "HS256"

\* C15: the verifier rejects every token without an exp claim: no request is
\* authenticated by a bearer token that carries no expiry.
C15_ExpRequired ==
    (Decoded /\ last.via = "bearer") =>
        ClaimsOf(last.req)[1].Token.exp # -1

C17_MissingSecret ==
    (/\ Decoded
     /\ secret = ""
     /\ ClaimsOf(last.req)[1].Token # EmptyToken) =>
        /\ last.err = Wrap("validating nats_token",
                           Err("NATS_TOKEN_SECRET environment variable is not set"))
        /\ last.minted = <<>>
        /\ Len(last.replies) = 1
        /\ IsResponse(last.replies[1])
        /\ last.replies[1].resp[1].Error = last.err
        /\ last.replies[1].resp[1].Jwt = <<>>

\* C18: with the secret set, a token that does not have exactly three
\* segments, of any length, makes the verifier return the malformed error as a
\* value: the handler does not crash and answers with an error reply.
C18_MalformedToken ==
    (/\ Decoded
     /\ secret # ""
     /\ ClaimsOf(last.req)[1].UserNkey = "UUSER"
     /\ ClaimsOf(last.req)[1].Token # EmptyToken
     /\ ClaimsOf(last.req)[1].Token.segs # 3) =>
        /\ ~last.panic
        /\ last.err = Wrap("validating nats_token", Err("invalid token format"))
        /\ last.minted = <<>>
        /\ Len(last.replies) = 1

\* C19: the verifier rejects every token whose user_id is absent or empty, even
\* with a valid signature and expiry; a request authenticated by its bearer
\* token carries a non-empty user id.
C19_UserIDRequired ==
    (Decoded /\ ClaimsOf(last.req)[1].Token # EmptyToken) =>
        /\ last.via = "bearer" => ClaimsOf(last.req)[1].Token.user_id # ""
        /\ ClaimsOf(last.req)[1].Token.user_id = "" =>
              /\ last.via = "none"
              /\ last.minted = <<>>
              /\ ~HasJwt(last)

C19_Witness ==
    /\ Decoded
    /\ ClaimsOf(last.req)[1].Token.key = secret
    /\ ClaimsOf(last.req)[1].Token.exp > now
    /\ ClaimsOf(last.req)[1].Token.user_id = ""
    /\ last.err = Wrap("validating nats_token", Err("missing user_id in token"))
    /\ last.minted = <<>>

\* The exchange ended in a failed bearer verification that was answered with an
\* error response.
BearerRefused(x) ==
    /\ x.stage = "Decoded"
    /\ x.err # NoError
    /\ x.err[1] = "validating nats_token"
    /\ Len(x.replies) = 1
    /\ IsResponse(x.replies[1])

\* C20: the error returned to the broker for a failed bearer verification is
\* one string for every failure kind: any two requests whose tokens fail
\* verification get replies with identical error fields.
C20_OneBearerError ==
    (Delivered /\ BearerRefused(last)) =>
        \A rc \in AuthCases :
            LET other == Run(Request("", Data(<<>>, <<rc>>))) IN
            BearerRefused(other) =>
                other.replies[1].resp[1].Error = last.replies[1].resp[1].Error

\* The strings of one list of a permission document.
KeptStrings(permissions, key, field) ==
    LET slot == Field(permissions, key) IN
    IF ~Is(slot, "map") THEN <<>>
    ELSE LET l == Field(slot[1].m, field) IN
         IF ~Is(l, "list") THEN <<>>
         ELSE Strings(SelectSeq(l[1].l, LAMBDA e : e.t = "string"))

\* The request comes from a broker-assigned user key in a plain envelope.
PlainFromUser(req) ==
    /\ HeaderXkey(req) = ""
    /\ ClaimsOf(req) # <<>>
    /\ ClaimsOf(req)[1].UserNkey = "UUSER"

\* C21: non-string elements of a pub/sub allow or deny list of a verified
\* token's permission document are dropped silently: the handler does not
\* crash, a reply is published, and a minted credential keeps exactly the
\* string elements.
C21_NonStringsDropped ==
    [][(/\ handled' = handled + 1
        /\ last'.stage # "Received"
        /\ PlainFromUser(last'.req)
        /\ TokenAccepted(ClaimsOf(last'.req)[1])) =>
            LET doc == ClaimsOf(last'.req)[1].Token.permissions IN
            /\ ~last'.panic
            /\ Len(last'.replies) = 1
            /\ last'.via = "bearer"
            /\ last'.minted # <<>> =>
                  /\ last'.minted[1].Permissions.Pub =
                        Permission(KeptStrings(doc, "pub", "allow"), KeptStrings(doc, "pub", "deny"))
                  /\ last'.minted[1].Permissions.Sub =
                        Permission(KeptStrings(doc, "sub", "allow"), KeptStrings(doc, "sub", "deny"))]_vars

\* The max of the resp slot of a permission document, when it is a number.
MaxOf(permissions) ==
    LET resp == Field(permissions, "resp") IN
    IF ~Is(resp, "map") THEN <<>>
    ELSE LET max == Field(resp[1].m, "max") IN
         IF Is(max, "number") THEN <<max[1].n10>> ELSE <<>>

\* C22: a credential minted from a bearer token whose resp.max is a
\* non-negative integer has resp.maxMsgs equal to it; a negative or non-integer
\* max leaves the resp slot out of the credential, which is still minted.
C22_RespMax ==
    (/\ Decoded
     /\ PlainFromUser(last.req)
     /\ last.via = "bearer"
     /\ MaxOf(ClaimsOf(last.req)[1].Token.permissions) # <<>>) =>
        LET n10 == MaxOf(ClaimsOf(last.req)[1].Token.permissions)[1] IN
        /\ last.minted # <<>>
        /\ IF n10 >= 0 /\ n10 % 10 = 0
           THEN last.minted[1].Permissions.Resp = <<ResponsePermission(n10 \div 10)>>
           ELSE last.minted[1].Permissions.Resp = <<>>

\* The document gives the slot no subject, allowed or denied.
EmptySlot(permissions, key) ==
    /\ KeptStrings(permissions, key, "allow") = <<>>
    /\ KeptStrings(permissions, key, "deny") = <<>>

\* C23: a credential minted from a bearer token omits every slot whose allow
\* and deny lists are both empty; an empty permissions document yields a
\* credential without pub, sub and resp slots, never an allow-all permission.
C23_EmptySlotsOmitted ==
    (Decoded /\ last.via = "bearer" /\ last.minted # <<>>) =>
        LET doc == ClaimsOf(last.req)[1].Token.permissions
            perms == last.minted[1].Permissions
        IN  /\ EmptySlot(doc, "pub") => perms.Pub = NoPermission
            /\ EmptySlot(doc, "sub") => perms.Sub = NoPermission
            /\ doc = NoDoc => perms = NoPermissions

C23_Witness ==
    /\ HasJwt(last)
    /\ last.via = "bearer"
    /\ ClaimsOf(last.req)[1].Token.permissions = DocEmptyLists
    /\ last.minted[1].Permissions = NoPermissions

\* A PermissionSet re-expressed as a permission document, with the field names
\* of the JSON form of jwt.Permissions (pub, sub, allow, deny, resp, max).
AsList(l) == JList([i \in 1..Len(l) |-> JStr(l[i])])

AsSlot(p) ==
    JMap([f \in { x \in {"allow", "deny"} :
                    \/ x = "allow" /\ p.Allow # <<>>
                    \/ x = "deny" /\ p.Deny # <<>> } |->
            IF f = "allow" THEN AsList(p.Allow) ELSE AsList(p.Deny)])

AsDocument(perms) ==
    [k \in { x \in {"pub", "sub", "resp"} : x = "resp" => perms.Resp # <<>> } |->
        CASE k = "pub" -> AsSlot(perms.Pub)
          [] k = "sub" -> AsSlot(perms.Sub)
          [] k = "resp" -> JMap([f \in {"max"} |-> JNum(perms.Resp[1].MaxMsgs * 10)])]

\* C24: permission translation is idempotent: translating the permissions of a
\* credential minted from a bearer token, re-expressed as a document, gives
\* those permissions again, the resp slot included.
C24_TranslateIdempotent ==
    (Decoded /\ last.via = "bearer" /\ last.minted # <<>>) =>
        ConvertPermissions(AsDocument(last.minted[1].Permissions)) =
            [panic |-> FALSE, perms |-> last.minted[1].Permissions]

C24_Witness ==
    /\ HasJwt(last)
    /\ last.via = "bearer"
    /\ ClaimsOf(last.req)[1].Token.permissions = DocDenyOnly
    /\ last.minted[1].Permissions.Pub = Permission(<<>>, <<"x.>">>)
    /\ ConvertPermissions(AsDocument(last.minted[1].Permissions)).perms.Pub.Deny = <<"x.>">>

\* C25: the max of a permission document is renamed to maxMsgs by the
\* handler's translator only: a document with resp.max = n, signed by the
\* token generator and then verified and translated by the handler, yields a
\* credential with resp.maxMsgs = n.
C25_GeneratedRespMax ==
    (/\ Delivered
     /\ call.op = "GenerateNatsToken"
     /\ call.out.token # <<>>
     /\ last.req = IssuedRequest
     /\ last.via = "bearer"
     /\ call.in.permissions # <<>>
     /\ MaxOf(call.in.permissions[1]) # <<>>) =>
        /\ last.minted # <<>>
        /\ last.minted[1].Permissions.Resp =
              <<ResponsePermission(MaxOf(call.in.permissions[1])[1] \div 10)>>

\* C26: key parsing succeeds exactly when the issuer seed is a well-formed
\* seed starting with SA and the curve seed is empty or a well-formed seed
\* starting with SX; an empty issuer seed is rejected whatever the curve seed;
\* on success HasXKey holds iff Curve is set iff the curve seed was non-empty.
C26_ParseKeys ==
    (call.op = "Parse") =>
        LET issuerSeed == call.in[1]
            xkeySeed == call.in[2]
            ok == call.out.err = <<>>
        IN  /\ ok <=> (issuerSeed = SeedAccount /\ xkeySeed \in {<<>>, SeedCurve})
            /\ ok <=> call.out.kp # <<>>
            /\ issuerSeed = <<>> => /\ ~ok
                                    /\ call.out.err[1].msg = "issuer seed cannot be empty"
            /\ ok => /\ call.out.kp[1].Issuer = IssuerPub
                     /\ call.out.kp[1].HasXKey <=> call.out.kp[1].Curve # <<>>
                     /\ call.out.kp[1].Curve # <<>> <=> xkeySeed # <<>>

C26_Witness ==
    /\ call.op = "Parse"
    /\ call.in = <<SeedAccount, SeedCurve>>
    /\ call.out.err = <<>>
    /\ call.out.kp[1].HasXKey
    /\ call.out.kp[1].Curve = <<CurvePub>>

\* The seed an error of Parse is about.
Offending ==
    IF call.out.err[1].msg \in {"parsing issuer seed", "issuer seed must start with 'SA'"}
    THEN call.in[1] ELSE call.in[2]

\* The quoted text is at most the first three characters of the seed, with or
\* without an ellipsis.
AtMostThree(quoted, seed) ==
    \E n \in 0..3 :
        /\ n <= Len(seed)
        /\ quoted \in {SubSeq(seed, 1, n), SubSeq(seed, 1, n) \o <<".", ".", ".">>}

\* Parse failed on a seed that it quotes in its error.
SeedRejected ==
    /\ call.op = "Parse"
    /\ call.out.err # <<>>
    /\ call.out.err[1].msg # "issuer seed cannot be empty"

StoredNames ==
    IF userRepo = FakeRepository THEN {"fake"} ELSE {"sys", "alice", "test", "dev"}

\* C28: Get returns (principal, true) exactly when the name equals a stored
\* user name character for character (no case folding, no pattern), with the
\* stored principal, and (nil, false) otherwise; it leaves the store as it is.
C28_GetExact ==
    [][call'.op = "Get" =>
          /\ call'.out # <<>> <=> call'.in \in StoredNames
          /\ call'.out # <<>> => call'.out = <<userRepo[call'.in]>>
          /\ userRepo' = userRepo]_vars

C28_Witness ==
    /\ call.op = "Get"
    /\ call.in = "Alice"
    /\ "alice" \in DOMAIN userRepo
    /\ call.out = <<>>

\* C29: when the credential store could not be loaded and the service runs on
\* the fallback principal, every static login, whatever the username and the
\* password, is answered with unknown-user and no credential is minted.
C29_FallbackStore ==
    (/\ Decoded
     /\ userRepo = FakeRepository
     /\ PlainFromUser(last.req)
     /\ ClaimsOf(last.req)[1].Token = EmptyToken
     /\ ClaimsOf(last.req)[1].Username # ""
     /\ ClaimsOf(last.req)[1].Password # "") =>
        /\ last.minted = <<>>
        /\ ~HasJwt(last)
        /\ last.err = Err("user not found")

\* The configuration file was read and unmarshalled.
Unmarshalled == call.op = "Load" /\ call.in.exists /\ ~call.in.empty /\ call.in.yaml

\* C30: loading a configuration fails, returning none, with 'auth.issuer_seed
\* is required' when auth.issuer_seed is empty and with 'auth.xkey_seed is
\* required' when auth.xkey_seed is empty; with both seeds and no environment,
\* the loaded environment is 'development'.
C30_LoadValidates ==
    Unmarshalled =>
        LET cfg == call.in.cfg IN
        /\ cfg.IssuerSeed = <<>> =>
              call.out = Loaded(Err("auth.issuer_seed is required"), <<>>)
        /\ (cfg.IssuerSeed # <<>> /\ cfg.XKeySeed = <<>>) =>
              call.out = Loaded(Err("auth.xkey_seed is required"), <<>>)
        /\ (cfg.IssuerSeed # <<>> /\ cfg.XKeySeed # <<>>) =>
              /\ call.out.err = NoError
              /\ call.out.cfg # <<>>
              /\ cfg.Environment = "" => call.out.cfg[1].Environment = "development"

C30_Witness ==
    /\ Unmarshalled
    /\ call.in.cfg.IssuerSeed = SeedAccount
    /\ call.in.cfg.XKeySeed = <<>>
    /\ call.out.err = Err("auth.xkey_seed is required")
    /\ call.out.cfg = <<>>

\* C31: auth.xkey_seed is optional: with a readable configuration that has a
\* broker URL and a valid issuer seed but no xkey seed, and a broker that
\* accepts the connection, the service and the endpoint, startup succeeds and
\* the handler runs without a curve key pair.
C31_XKeyOptional ==
    (/\ call.op = "run"
     /\ call.in[1].exists /\ ~call.in[1].empty /\ call.in[1].yaml
     /\ call.in[1].cfg.URL # ""
     /\ call.in[1].cfg.IssuerSeed = SeedAccount
     /\ call.in[1].cfg.XKeySeed = <<>>
     /\ call.in[2].connect /\ call.in[2].service /\ call.in[2].endpoint) =>
        /\ call.out.err = NoError
        /\ call.out.kp # <<>>
        /\ ~call.out.kp[1].HasXKey
        /\ call.out.kp[1].Curve = <<>>

\* C32: a panic in one handler invocation does not terminate the service: an
\* error reply is attempted for that request and the service keeps running, so
\* that later requests are still accepted.
C32_PanicContained ==
    (Delivered /\ last.panic) => (running /\ last.replies # <<>>)

\* C34: the server-key header is matched case-insensitively: a request whose
\* header name is spelled in another case has the same outcome as the same
\* request with the name spelled Nats-Server-Xkey.
C34_HeaderCaseInsensitive ==
    (Delivered /\ last.req.header # XkeyHeader) =>
        Outcome(last) = Outcome(Run([last.req EXCEPT !.header = XkeyHeader]))

\* C35: the bearer-token secret is fixed at startup: a change of
\* NATS_TOKEN_SECRET while the service runs changes the verification of no
\* token (between two moments of the same clock reading, every token is
\* verified alike).
C35_SecretReadOnce ==
    [][now' = now =>
          \A t \in Tokens \ {EmptyToken} : ValidateNatsToken(t)' = ValidateNatsToken(t)]_vars

\* C39: in the bearer flow the repository is never consulted, and what is
\* minted or refused follows from the verified token alone: the credential's
\* account and permissions are the token's, a refusal is the verifier's error,
\* whatever the repository holds under the request's username.
C39_BearerIgnoresStore ==
    (Decoded /\ ClaimsOf(last.req)[1].Token # EmptyToken) =>
        LET rc == ClaimsOf(last.req)[1] IN
        /\ last.lookups = <<>>
        /\ last.via # "static"
        /\ last.minted # <<>> =>
              /\ last.minted[1].Audience = rc.Token.account
              /\ last.minted[1].Permissions = ConvertPermissions(rc.Token.permissions).perms
        /\ (~last.panic /\ last.stage = "Decoded") =>
              /\ Len(last.err) > 1
              /\ last.err[1] = "validating nats_token"

C39_Witness ==
    /\ HasJwt(last)
    /\ last.via = "bearer"
    /\ ClaimsOf(last.req)[1].Username \in DOMAIN userRepo
    /\ userRepo[ClaimsOf(last.req)[1].Username].Account # last.minted[1].Audience
    /\ last.lookups = <<>>

\* The invocations in flight.
Invocations == 1..Len(inflight)

\* The payloads an invocation handed to req.Respond.
Payloads(inv) == [k \in 1..Len(inv.attempts) |-> inv.attempts[k].payload]

PublishFailed(inv) == \E k \in 1..Len(inv.attempts) : ~inv.attempts[k].ok

Ended(inv) == inv.pc \in {"Responded", "Panicked"}

\* C33: on the shutdown signal the connection is drained before the process
\* returns, so that when the process has exited after a shutdown every
\* invocation that was in flight has published its reply.
C33_DrainBeforeExit ==
    (~running /\ conn = "closed") =>
        \A i \in Invocations :
            /\ inflight[i].pc = "Responded"
            /\ Len(inflight[i].attempts) = 1

\* C36: invocations do not affect one another: whatever the interleaving, a
\* request whose handling is over (its invocation ended, or the process
\* stopped without a shutdown) was answered as it is when handled alone (same
\* payloads, same credential), and the key material and the repository are the
\* ones the handler was built with.
C36_Isolation ==
    /\ keyPairs.Issuer = IssuerPub
    /\ userRepo = UsersNew
    /\ \A i \in Invocations :
          (Ended(inflight[i]) \/ (~running /\ conn = "connected")) =>
              /\ Payloads(inflight[i]) = Run(inflight[i].req).replies
              /\ inflight[i].minted = Run(inflight[i].req).minted

StageRank(pc) ==
    CASE pc = "Received" -> 1
      [] pc = "Decoded" -> 2
      [] pc = "Authenticated" -> 3
      [] pc = "Minted" -> 4
      [] OTHER -> 5

\* C37: a request moves only forward through Received, Decoded,
\* Authenticated, Minted, Responded: the repository or the verifier is used
\* only once the claims are decoded, a credential is minted only after a
\* successful authentication, an invocation that failed is Responded with one
\* reply, and a Responded invocation does nothing more.
C37_ForwardOnly ==
    [][\A i \in Invocations :
          LET a == inflight[i]
              b == inflight'[i]
          IN  /\ StageRank(b.pc) >= StageRank(a.pc)
              /\ b.v # <<>> => b.rc # <<>>
              /\ b.minted # <<>> => (b.v # <<>> /\ b.v[1].err = NoError /\ ~b.v[1].panic)
              /\ b.err # NoError => (b.pc = "Responded" /\ Len(b.attempts) = 1)
              /\ a.pc = "Responded" => b = a]_vars

\* C38: a failed publish is dropped: the invocation made that one attempt
\* only and returned, the process and the other invocations are as they were,
\* a Responded invocation publishes nothing more, and a request delivered
\* after it is answered as it is when handled alone.
C38_PublishFailureDropped ==
    [][\A i \in Invocations :
          LET a == inflight[i]
              b == inflight'[i]
          IN  /\ (PublishFailed(b) /\ ~PublishFailed(a)) =>
                    /\ Len(b.attempts) = 1
                    /\ b.pc = "Responded"
                    /\ running' = running
                    /\ conn' = conn
                    /\ \A j \in Invocations \ {i} : inflight'[j] = inflight[j]
              /\ a.pc = "Responded" => b.attempts = a.attempts
              /\ PublishFailed(a) =>
                    \A j \in Invocations :
                        (j > i /\ inflight'[j].pc = "Responded") =>
                            Payloads(inflight'[j]) = Run(inflight'[j].req).replies]_vars

C38_Witness ==
    \E i, j \in Invocations :
        /\ i < j
        /\ PublishFailed(inflight[i])
        /\ inflight[i].pc = "Responded"
        /\ inflight[j].pc = "Responded"
        /\ ~PublishFailed(inflight[j])
        /\ running

====
